---- MODULE Spec2Model ----
(***************************************************************************)
(* Model of accSetupSync.py: a watchdog observer thread that mirrors setup *)
(* files of one car across the known track directories, the pause/resume   *)
(* gate around the handler, and the filesystem the handler works on.       *)
(*                                                                         *)
(* A path is a sequence of names; the filesystem is a function from the    *)
(* existing paths to "dir" or to the bytes of a file.                      *)
(***************************************************************************)
EXTENDS Integers, Sequences, FiniteSets, TLC

VARIABLES fs, backend, queue, paused, pc, last, pre, userTrack,
          active, main, ens, ini

vars == <<fs, backend, queue, paused, pc, last, pre, userTrack,
          active, main, ens, ini>>

\* what the observer thread leaves alone: the main flow, the calls of
\* create_track_dirs on their own, the bulk initializer
others == <<main, ens, ini>>

(***************************************************************************)
(* Program constants                                                       *)
(***************************************************************************)
ACC_TRACK_FOLDERS ==
    << "Barcelona", "brands_hatch", "Hungaroring", "Kyalami", "Laguna_Seca",
       "misano", "monza", "mount_panorama", "nurburgring", "Paul_Ricard",
       "Silverstone", "Spa", "Suzuka", "Zandvoort", "Zolder" >>

(***************************************************************************)
(* Bounds                                                                  *)
(***************************************************************************)
\* how many of the known track names the model iterates over
NumTracks == 3
\* events the observer's queue holds before the emitter waits
MaxQueue == 3
\* events observed by the backend and not yet queued when an external
\* change or a dispatch may still happen
MaxBackend == 2

Tracks == SubSeq(ACC_TRACK_FOLDERS, 1, NumTracks)

TrackSet == { Tracks[i] : i \in 1..NumTracks }

(***************************************************************************)
(* Paths and the filesystem                                                *)
(***************************************************************************)
ParentRoot == << "ACC" >>

Root == << "ACC", "Setups" >>

Car1 == Append(Root, "car1")

Car2 == Append(Root, "car2")

Bytes == { "b1", "b2" }

\* the value of a local name that was never assigned
Unbound == << >>

\* os.path.dirname(p), os.path.split(p)[0]
Parent(p) == SubSeq(p, 1, Len(p) - 1)

\* os.path.basename(p), os.path.split(p)[1]
Base(p) == p[Len(p)]

\* os.path.join(p, n)
Join(p, n) == Append(p, n)

\* os.path.isdir(p)
IsDir(f, p) == p \in DOMAIN f /\ f[p] = "dir"

\* os.path.isfile(p)
IsFile(f, p) == p \in DOMAIN f /\ f[p] # "dir"

Children(f, p) == { q \in DOMAIN f : Len(q) = Len(p) + 1 /\ Parent(q) = p }

\* list_dir(p, files = True) of an existing directory
ListFiles(f, p) == { Base(q) : q \in { c \in Children(f, p) : f[c] # "dir" } }

(***************************************************************************)
(* Events of the change-notification backend                               *)
(***************************************************************************)
\* own and gated record where an event comes from: own, a write of the
\* handler; gated, put on the event queue while the observer was paused
Ev(kind, path, isDir, own) ==
    [kind |-> kind, path |-> path, isDir |-> isDir, own |-> own,
     gated |-> FALSE]

\* observer.schedule(eventHandler, path = args.setupsPath, recursive = True):
\* only what lies in the tree of the root is reported
Watched(p) == Len(p) >= Len(Root) /\ SubSeq(p, 1, Len(Root)) = Root

Reported(events) == SelectSeq(events, LAMBDA e : Watched(e.path))

\* os.mkdir(p) is reported as: directory created, parent modified
MkdirEvents(p) ==
    Reported(<< Ev("created", p, TRUE, TRUE),
                Ev("modified", Parent(p), TRUE, TRUE) >>)

\* a copy onto dst is reported as: (created, parent modified when dst is
\* new,) file modified
WriteEvents(f, dst) ==
    Reported((IF dst \in DOMAIN f THEN << >>
              ELSE << Ev("created", dst, FALSE, TRUE),
                      Ev("modified", Parent(dst), TRUE, TRUE) >>)
             \o << Ev("modified", dst, FALSE, TRUE) >>)

\* os.remove(p) is reported as: file deleted, parent modified
RemoveEvents(p) ==
    Reported(<< Ev("deleted", p, FALSE, TRUE),
                Ev("modified", Parent(p), TRUE, TRUE) >>)

(***************************************************************************)
(* Filesystem calls of the handler.  A run r is [fs, err, out]: the        *)
(* filesystem so far, whether an exception has been raised, and the events *)
(* the backend observed for the writes made.  After an exception nothing   *)
(* more is executed.                                                       *)
(***************************************************************************)
Raise(r) == [r EXCEPT !.err = TRUE]

\* os.mkdir(p): fails when p exists or its parent is no directory
Mkdir(r, p) ==
    IF r.err THEN r
    ELSE IF p \in DOMAIN r.fs \/ ~IsDir(r.fs, Parent(p)) THEN Raise(r)
    ELSE [r EXCEPT !.fs = (p :> "dir") @@ r.fs,
                   !.out = @ \o MkdirEvents(p)]

\* shutil.copyfile(src, dst): fails when src is no file, dst is a
\* directory or the directory of dst does not exist
CopyFile(r, src, dst) ==
    IF r.err THEN r
    ELSE IF src = Unbound \/ ~IsFile(r.fs, src) \/ IsDir(r.fs, dst)
            \/ ~IsDir(r.fs, Parent(dst)) \/ src = dst
         THEN Raise(r)
    ELSE [r EXCEPT !.fs = (dst :> r.fs[src]) @@ r.fs,
                   !.out = @ \o WriteEvents(r.fs, dst)]

\* shutil.copy(src, dst): as copyfile, into dst when dst is a directory
Copy(r, src, dst) ==
    IF r.err THEN r
    ELSE IF src = Unbound THEN Raise(r)
    ELSE IF IsDir(r.fs, dst) THEN CopyFile(r, src, Join(dst, Base(src)))
    ELSE CopyFile(r, src, dst)

\* os.remove(p): fails when p is no file
Remove(r, p) ==
    IF r.err THEN r
    ELSE IF ~IsFile(r.fs, p) THEN Raise(r)
    ELSE [r EXCEPT !.fs = [q \in (DOMAIN r.fs) \ {p} |-> r.fs[q]],
                   !.out = @ \o RemoveEvents(p)]

(***************************************************************************)
(* create_track_dirs                                                       *)
(***************************************************************************)
RECURSIVE CreateFromSkipLast(_, _, _)
CreateFromSkipLast(r, carDir, i) ==
    IF i >= NumTracks THEN r
    ELSE LET targetPath == Join(carDir, Tracks[i])
         IN CreateFromSkipLast(IF ~IsDir(r.fs, targetPath)
                               THEN Mkdir(r, targetPath) ELSE r,
                               carDir, i + 1)

RECURSIVE CreateFrom(_, _, _)
\* the loop of create_track_dirs from the i-th known track on
CreateFrom(r, carDir, i) ==
    IF i > NumTracks THEN r
    ELSE LET targetPath == Join(carDir, Tracks[i])
         IN CreateFrom(IF ~IsDir(r.fs, targetPath) THEN Mkdir(r, targetPath)
                       ELSE r,
                       carDir, i + 1)

CreateFirstMissing(r, carDir) ==
    LET missing == { i \in 1..NumTracks : ~IsDir(r.fs, Join(carDir, Tracks[i])) }
    IN IF missing = {} THEN r
       ELSE Mkdir(r, Join(carDir, Tracks[CHOOSE i \in missing :
                                            \A j \in missing : i <= j]))

create_track_dirs(r, carDir) == CreateFrom(r, carDir, 1)

(***************************************************************************)
(* EventHandler.on_modified                                                *)
(***************************************************************************)
IsPseudoCarMisspelt(carName) == carName = "setups"

\* the early return for events one level too shallow
IsPseudoCar(carName) == carName = "Setups"

\* a file in the source directory is copied only where the target has none
NeedsCopy(f, targetPath) == ~IsFile(f, targetPath)

IsDeletedInverted(setup, setups) == setup \in setups

\* a file of a target track is removed when the source has no such name
IsDeleted(setup, setups) == setup \notin setups

RECURSIVE CopySetups(_, _, _, _)
\* "Copy setups": the listing order of setups is the filesystem's
CopySetups(r, setupPath, trackPath, todo) ==
    IF todo = {} THEN r
    ELSE LET setup == CHOOSE s \in todo : TRUE
             targetPath == Join(trackPath, setup)
         IN CopySetups(IF NeedsCopy(r.fs, targetPath)
                       THEN Copy(r, setupPath, targetPath)
                       ELSE r,
                       setupPath, trackPath, todo \ {setup})

RECURSIVE RemoveSetups(_, _, _, _)
\* "Remove deleted setups", over the listing trackSetups of the target
RemoveSetups(r, targetPath, setups, todo) ==
    IF todo = {} THEN r
    ELSE LET setup == CHOOSE s \in todo : TRUE
         IN RemoveSetups(IF IsDeleted(setup, setups)
                         THEN Remove(r, Join(targetPath, setup))
                         ELSE r,
                         targetPath, setups, todo \ {setup})

\* one iteration of "for track in ACC_TRACK_FOLDERS" of the directory branch
SyncTrack(r, setupPath, carDir, track, setups) ==
    LET targetPath == Join(carDir, track)
        r1 == CopySetups(r, setupPath, targetPath, setups)
    IN IF r1.err THEN r1
       ELSE IF ~IsDir(r1.fs, targetPath) THEN Raise(r1)
       ELSE RemoveSetups(r1, targetPath, setups, ListFiles(r1.fs, targetPath))

RECURSIVE SyncTracksFrom(_, _, _, _, _, _)
SyncTracksFrom(r, setupPath, carDir, trackName, setups, i) ==
    IF i > NumTracks \/ r.err THEN r
    ELSE SyncTracksFrom(IF Tracks[i] = trackName THEN r
                        ELSE SyncTrack(r, setupPath, carDir, Tracks[i], setups),
                        setupPath, carDir, trackName, setups, i + 1)

\* the branch "if event.is_directory"
SyncDirectory(r, setupPath, trackDir, carDir, trackName) ==
    IF r.err THEN r
    ELSE IF ~IsDir(r.fs, trackDir) THEN Raise(r)
    ELSE SyncTracksFrom(r, setupPath, carDir, trackName,
                        ListFiles(r.fs, trackDir), 1)

CopyFileIfAbsent(r, src, dst) == IF IsFile(r.fs, dst) THEN r ELSE CopyFile(r, src, dst)

\* the copy of the single-file branch
CopyChange(r, src, dst) == CopyFile(r, src, dst)

RECURSIVE SyncFileFrom(_, _, _, _, _, _)
\* the branch "else": copy changes to every other track
SyncFileFrom(r, setupPath, setupName, carDir, trackName, i) ==
    IF i > NumTracks \/ r.err THEN r
    ELSE SyncFileFrom(IF Tracks[i] = trackName THEN r
                      ELSE CopyChange(r, setupPath,
                                      Join(Join(carDir, Tracks[i]), setupName)),
                      setupPath, setupName, carDir, trackName, i + 1)

\* the body of on_modified inside "with self._observer.ignore_events()":
\* [fs, err, out, ignored]
CarDirIsTrackDir(trackDir) == trackDir

\* carDir = os.path.split(trackDir)[0]
CarDirOf(trackDir) == Parent(trackDir)

on_modified(f, event) ==
    LET trackDir  == IF event.isDir THEN event.path ELSE Parent(event.path)
        setupPath == IF event.isDir THEN Unbound ELSE event.path
        carDir    == CarDirOf(trackDir)
        trackName == Base(trackDir)
        carName   == Base(carDir)
        r0 == [fs |-> f, err |-> FALSE, out |-> << >>, ignored |-> FALSE]
    IN IF IsPseudoCar(carName) THEN [r0 EXCEPT !.ignored = TRUE]
       ELSE IF event.isDir
            THEN SyncDirectory(create_track_dirs(r0, carDir), setupPath,
                               trackDir, carDir, trackName)
            ELSE SyncFileFrom(create_track_dirs(r0, carDir), setupPath,
                              Base(event.path), carDir, trackName, 1)

(***************************************************************************)
(* The observer thread: FileSystemEventHandler.dispatch, the pause/resume  *)
(* gate, the emitter threads of the backend, and the user                  *)
(***************************************************************************)
NoEvent == Ev("none", << >>, FALSE, FALSE)

\* the main flow in "while True: time.sleep(1)", no interrupt yet
MainWaiting ==
    [pc |-> "waiting", stopped |-> FALSE, inflight |-> FALSE, code |-> "none"]

\* create_track_dirs not called on its own
EnsIdle == [calls |-> 0, err |-> FALSE, start |-> << >>]

\* init not running
IniOff == [pc |-> "off", cars |-> {}, car |-> << >>, i |-> 0,
           setupPaths |-> << >>, clobbered |-> FALSE]

HandledKindsAll == { "modified", "created", "deleted" }

\* the event kinds whose method EventHandler overrides
HandledKinds == { "modified" }

CanDispatchUngated == queue # << >>

\* PausingObserver.dispatch_events, called by the observer thread while it
\* has not been stopped: nothing is dispatched while paused
CanDispatch ==
    /\ pc = "idle"
    /\ ~main.stopped
    /\ ~paused
    /\ queue # << >>

\* an event whose kind has only the inherited empty method
DispatchOther ==
    /\ CanDispatch
    /\ Head(queue).kind \notin HandledKinds
    /\ queue' = Tail(queue)
    /\ last' = [ev |-> Head(queue), outcome |-> "unhandled"]
    /\ pre' = fs
    /\ active' = active
    /\ UNCHANGED <<fs, backend, paused, pc, userTrack, others>>

\* on_modified up to the end of the with-body: pause, then the body.  When
\* the body raises, resume is not run and the exception ends the thread.
DispatchModified ==
    /\ CanDispatch
    /\ Head(queue).kind \in HandledKinds
    /\ Len(backend) <= MaxBackend
    /\ LET r == on_modified(fs, Head(queue))
       IN /\ fs' = r.fs
          /\ backend' = backend \o r.out
          /\ pc' = IF r.err THEN "dead" ELSE "sleep"
          /\ active' = IF r.err THEN active ELSE active + 1
          /\ last' = [ev |-> Head(queue),
                      outcome |-> IF r.err THEN "raised"
                                  ELSE IF r.ignored THEN "ignored" ELSE "done"]
    /\ queue' = Tail(queue)
    /\ paused' = TRUE
    /\ pre' = fs
    /\ UNCHANGED <<userTrack, others>>

\* resume: time.sleep(self.timeout)
ResumeSleep ==
    /\ pc = "sleep"
    /\ pc' = "clear"
    /\ active' = active
    /\ UNCHANGED <<fs, backend, queue, paused, last, pre, userTrack, others>>

\* resume: self.event_queue.queue.clear()
ResumeClear ==
    /\ pc = "clear"
    /\ queue' = << >>
    /\ pc' = "unpause"
    /\ active' = active
    /\ UNCHANGED <<fs, backend, paused, last, pre, userTrack, others>>

\* resume: self._is_paused = False, and back to the dispatch loop
ResumeUnpause ==
    /\ pc = "unpause"
    /\ paused' = FALSE
    /\ pc' = "idle"
    /\ active' = active - 1
    /\ UNCHANGED <<fs, backend, queue, last, pre, userTrack, others>>

\* an emitter thread puts the oldest observed event on the event queue
Emit ==
    /\ backend # << >>
    /\ Len(queue) < MaxQueue
    /\ queue' = Append(queue, [Head(backend) EXCEPT !.gated = paused])
    /\ backend' = Tail(backend)
    /\ active' = active
    /\ UNCHANGED <<fs, paused, pc, last, pre, userTrack, others>>

\* the file the user works on
UserFile == Join(Join(Car1, userTrack), "f")

\* the user adds a setup file to a track
ExtAdd(b) ==
    /\ Len(backend) < MaxBackend
    /\ UserFile \notin DOMAIN fs
    /\ fs' = (UserFile :> b) @@ fs
    /\ backend' = backend \o << Ev("created", UserFile, FALSE, FALSE),
                                Ev("modified", Parent(UserFile), TRUE, FALSE) >>
    /\ active' = active
    /\ UNCHANGED <<queue, paused, pc, last, pre, userTrack, others>>

\* the user saves new contents to a setup file
ExtModify(b) ==
    /\ Len(backend) < MaxBackend
    /\ IsFile(fs, UserFile)
    /\ fs[UserFile] # b
    /\ fs' = [fs EXCEPT ![UserFile] = b]
    /\ backend' = Append(backend, Ev("modified", UserFile, FALSE, FALSE))
    /\ active' = active
    /\ UNCHANGED <<queue, paused, pc, last, pre, userTrack, others>>

\* the user deletes a setup file
ExtDelete ==
    /\ Len(backend) < MaxBackend
    /\ IsFile(fs, UserFile)
    /\ fs' = [q \in (DOMAIN fs) \ {UserFile} |-> fs[q]]
    /\ backend' = backend \o << Ev("deleted", UserFile, FALSE, FALSE),
                                Ev("modified", Parent(UserFile), TRUE, FALSE) >>
    /\ active' = active
    /\ UNCHANGED <<queue, paused, pc, last, pre, userTrack, others>>

(***************************************************************************)
(* Filesystems and events the specifications start from                    *)
(***************************************************************************)
\* a car directory whose track t holds the files of assign[t].files when
\* assign[t].present
CarFs(car, assign) ==
    LET present == { t \in DOMAIN assign : assign[t].present }
        dirs == { Join(car, t) : t \in present }
        files == UNION { { Join(Join(car, t), n) : n \in DOMAIN assign[t].files }
                         : t \in present }
    IN [p \in {car} \cup dirs \cup files |->
          IF p \in files THEN assign[Base(Parent(p))].files[Base(p)] ELSE "dir"]

Roots == (ParentRoot :> "dir") @@ (Root :> "dir")

\* the watch starts from a car in the steady state: every track directory
\* exists and all hold the same files
WatchFilesystems ==
    { Roots @@ CarFs(Car1, [t \in TrackSet |-> [present |-> TRUE, files |-> c]])
        : c \in UNION { [S -> Bytes] : S \in SUBSET {"f"} } }

Init ==
    /\ fs \in WatchFilesystems
    /\ backend = << >>
    /\ queue = << >>
    /\ paused = FALSE
    /\ pc = "idle"
    /\ last = [ev |-> NoEvent, outcome |-> "none"]
    /\ pre = fs
    /\ userTrack \in TrackSet
    /\ active = 0
    /\ main = MainWaiting
    /\ ens = EnsIdle
    /\ ini = IniOff

Next ==
    \/ DispatchOther
    \/ DispatchModified
    \/ ResumeSleep
    \/ ResumeClear
    \/ ResumeUnpause
    \/ Emit
    \/ \E b \in Bytes : ExtAdd(b)
    \/ \E b \in Bytes : ExtModify(b)
    \/ ExtDelete

Spec == Init /\ [][Next]_vars

(***************************************************************************)
(* One pass of the handler over an arbitrary filesystem: the specification *)
(* SpecPass starts with one event queued and any contents in the tracks of *)
(* car1, and runs the observer thread alone.                               *)
(***************************************************************************)
PassFiles == { "f", "g" }

\* what a track directory may hold: f with either bytes, g with the first
PassContents ==
    { c \in UNION { [S -> Bytes] : S \in SUBSET PassFiles } :
        "g" \in DOMAIN c => c["g"] = "b1" }

PassTrackStates ==
    { [present |-> TRUE, files |-> c] : c \in PassContents }
    \cup { [present |-> FALSE, files |-> << >>] }

Unknown == Join(Car1, "unknown")

Sub == Join(Join(Car1, Tracks[1]), "sub")

Stray == Join(Root, "stray")

\* beside the known tracks of car1: a file directly under the root, a
\* directory of car1 that is no known track, a directory inside a track,
\* and a second car
Extras(f) ==
    (Stray :> "b1") @@ (Unknown :> "dir") @@ (Join(Unknown, "f") :> "b2")
    @@ (IF IsDir(f, Parent(Sub))
        THEN (Sub :> "dir") @@ (Join(Sub, "f") :> "b2")
        ELSE << >>)
    @@ CarFs(Car2, [t \in {Tracks[1]} |->
                      [present |-> TRUE, files |-> [n \in {"f"} |-> "b1"]]])

PassFilesystems ==
    { LET f == Roots @@ CarFs(Car1, assign) IN Extras(f) @@ f
        : assign \in [TrackSet -> PassTrackStates] }

PassEvents ==
    { Ev("modified", p, TRUE, FALSE)
        : p \in {Root, Car1, Unknown, Sub} \cup { Join(Car1, t) : t \in TrackSet } }
    \cup { Ev("modified", p, FALSE, FALSE)
        : p \in {Stray, Join(Car1, "notes"), Join(Unknown, "f"), Join(Sub, "f")}
                \cup { Join(Join(Car1, t), n) : t \in TrackSet, n \in PassFiles } }
    \cup { Ev(k, Join(Join(Car1, Tracks[1]), "f"), FALSE, FALSE)
        : k \in {"created", "deleted"} }
    \cup { Ev(k, Join(Car1, Tracks[1]), TRUE, FALSE) : k \in {"created", "deleted"} }

InitPass ==
    /\ fs \in PassFilesystems
    /\ backend = << >>
    /\ \E e \in PassEvents : queue = << e >>
    /\ paused = FALSE
    /\ pc = "idle"
    /\ last = [ev |-> NoEvent, outcome |-> "none"]
    /\ pre = fs
    /\ userTrack = Tracks[1]
    /\ active = 0
    /\ main = MainWaiting
    /\ ens = EnsIdle
    /\ ini = IniOff

NextPass ==
    \/ DispatchOther
    \/ DispatchModified
    \/ ResumeSleep
    \/ ResumeClear
    \/ ResumeUnpause

SpecPass == InitPass /\ [][NextPass]_vars

(***************************************************************************)
(* Vocabulary of the properties                                            *)
(***************************************************************************)
KnownTrackNames == { ACC_TRACK_FOLDERS[i] : i \in 1..Len(ACC_TRACK_FOLDERS) }

\* on_modified ran for the last dispatched event
Processed == last.outcome \in { "done", "raised", "ignored" }

\* the directory the last event is classified under
EvTrackDir == IF last.ev.isDir THEN last.ev.path ELSE Parent(last.ev.path)

EvCarDir == Parent(EvTrackDir)

\* p is Root/<car>/<known track>
IsTrackDirPath(p) ==
    /\ Len(p) = Len(Root) + 2
    /\ SubSeq(p, 1, Len(Root)) = Root
    /\ Base(p) \in KnownTrackNames

\* the last event was a directory-level event for a known track
DirPass == Processed /\ last.ev.isDir /\ IsTrackDirPath(last.ev.path)

\* the last event was a single-file event for a file of a known track
FilePass == Processed /\ ~last.ev.isDir /\ IsTrackDirPath(Parent(last.ev.path))

OtherTracks == { t \in TrackSet : t # Base(EvTrackDir) }

\* every track directory of the car holds the same file names with the
\* same bytes
Consistent(f, car) ==
    \A t1, t2 \in TrackSet :
        /\ IsDir(f, Join(car, t1))
        /\ ListFiles(f, Join(car, t1)) = ListFiles(f, Join(car, t2))
        /\ \A n \in ListFiles(f, Join(car, t1)) :
              f[Join(Join(car, t1), n)] = f[Join(Join(car, t2), n)]

\* no handler running, nothing queued, nothing left to queue
Quiescent == pc \in { "idle", "dead" } /\ queue = << >> /\ backend = << >>

(***************************************************************************)
(* C1  Self-suppression: no event caused by a write of the handler itself  *)
(* is dispatched to the handler and starts another pass.                   *)
(***************************************************************************)
C1_SelfSuppression == ~(Processed /\ last.ev.own)

(***************************************************************************)
(* C2  Steady state: from a consistent car, after any external changes to  *)
(* one track, once the watcher is quiescent every track directory holds    *)
(* the same file names with the same bytes.                                *)
(***************************************************************************)
C2_SteadyState == Quiescent => Consistent(fs, Car1)

(***************************************************************************)
(* C3  Clobber on single-file update: when a modified event for a file f   *)
(* of known track A is processed to completion, every other known track    *)
(* holds f with the bytes of A's f, whatever it held before.               *)
(***************************************************************************)
C3_Clobber ==
    (FilePass /\ last.outcome = "done") =>
        /\ IsFile(fs, last.ev.path)
        /\ \A t \in OtherTracks :
              LET target == Join(Join(EvCarDir, t), Base(last.ev.path))
              IN IsFile(fs, target) /\ fs[target] = fs[last.ev.path]

C3_Witness ==
    /\ FilePass /\ last.outcome = "done"
    /\ \E t \in OtherTracks :
          Join(Join(EvCarDir, t), Base(last.ev.path)) \notin DOMAIN pre
    /\ \E t \in OtherTracks :
          LET target == Join(Join(EvCarDir, t), Base(last.ev.path))
          IN IsFile(pre, target) /\ pre[target] # pre[last.ev.path]

(***************************************************************************)
(* C4  Fan-out completeness: a directory-level event for known track A     *)
(* completes, and afterwards every track directory of the car holds        *)
(* exactly the file names of A.                                            *)
(***************************************************************************)
C4_FanOutComplete ==
    DirPass =>
        /\ last.outcome = "done"
        /\ \A t \in TrackSet :
              /\ IsDir(fs, Join(EvCarDir, t))
              /\ ListFiles(fs, Join(EvCarDir, t)) = ListFiles(fs, EvTrackDir)

(***************************************************************************)
(* C5  Deletion propagation: after a directory-level event for known track *)
(* A is processed, a file name absent from A is absent from every other    *)
(* known track directory of the car.                                       *)
(***************************************************************************)
C5_DeletionPropagation ==
    DirPass =>
        \A t \in OtherTracks :
            ListFiles(fs, Join(EvCarDir, t)) \subseteq ListFiles(fs, EvTrackDir)

(***************************************************************************)
(* C6  Non-clobber: in a directory-level pass with source A, a file of     *)
(* another track whose name is also in A keeps its bytes: it is neither    *)
(* overwritten nor removed.                                                *)
(***************************************************************************)
C6_NonClobber ==
    DirPass =>
        \A t \in OtherTracks : \A n \in ListFiles(pre, EvTrackDir) :
            LET target == Join(Join(EvCarDir, t), n)
            IN IsFile(pre, target) => IsFile(fs, target) /\ fs[target] = pre[target]

C6_Witness ==
    /\ DirPass /\ last.outcome = "done"
    /\ fs # pre
    /\ \E t \in OtherTracks : \E n \in ListFiles(pre, EvTrackDir) :
          LET target == Join(Join(EvCarDir, t), n)
          IN /\ IsFile(pre, target)
             /\ pre[target] # pre[Join(EvTrackDir, n)]
             /\ fs[target] = pre[target]

(***************************************************************************)
(* C8  Root-level pseudo-event: an event whose car segment is "Setups"     *)
(* causes no filesystem operation.                                         *)
(***************************************************************************)
C8_PseudoEvent ==
    (last.outcome # "none" /\ Base(EvCarDir) = "Setups") => fs = pre

C8_Witness ==
    /\ last.outcome = "ignored"
    /\ last.ev.path = Car1
    /\ \E t \in TrackSet : ~IsDir(fs, Join(Car1, t))

(***************************************************************************)
(* C9  Invalid events are discarded: an event whose path is not            *)
(* Root/Car/Track or Root/Car/Track/file with a known Track causes no      *)
(* filesystem operation.                                                   *)
(***************************************************************************)
C9_InvalidDiscarded ==
    (last.outcome # "none" /\ ~IsTrackDirPath(EvTrackDir)) => fs = pre

(***************************************************************************)
(* C7  Per-event failure isolation: after the processing of one event has  *)
(* failed, a later event that reaches the queue can still be dispatched.   *)
(***************************************************************************)
C7_FailureIsolation == (last.outcome = "raised" /\ queue # << >>) => CanDispatch

(***************************************************************************)
(* C10  Event kinds: every dispatched event of kind modified, created or   *)
(* deleted goes through the gate into on_modified.                         *)
(***************************************************************************)
C10_AllKindsHandled ==
    last.ev.kind \in { "modified", "created", "deleted" } => Processed

\* a step of the observer thread that takes the head of the queue
IsDispatch == pc = "idle" /\ queue # << >> /\ queue' = Tail(queue)

(***************************************************************************)
(* C10 (amended)  Only a modified event goes through the gate into         *)
(* on_modified; a created or deleted event is dispatched to an empty       *)
(* method: the observer is not paused and nothing is written.              *)
(***************************************************************************)
C10_OnlyModifiedHandled ==
    [][IsDispatch =>
          IF Head(queue).kind = "modified"
          THEN paused' /\ pc' \in { "sleep", "dead" }
          ELSE UNCHANGED <<fs, backend, paused, pc>>]_vars

C10_Witness ==
    /\ last.ev.kind = "created"
    /\ last.outcome = "unhandled"
    /\ ~last.ev.own
    /\ IsFile(fs, last.ev.path)
    /\ ~paused

(***************************************************************************)
(* init: the bulk initializer.  SpecInit runs it over a setups folder with *)
(* two cars; the listing order of cars and of the files of a track is the  *)
(* filesystem's, so any order may be taken.                                *)
(***************************************************************************)
\* how many tracks of car1 hold files when init starts
InitVaried == 2

\* list_dir(p, dirs = True)
ListDirs(f, p) == { Base(q) : q \in { c \in Children(f, p) : f[c] = "dir" } }

\* the orders os.listdir may return the names of S in
Orders(S) ==
    { o \in [1..Cardinality(S) -> S] : \A i, j \in DOMAIN o : o[i] = o[j] => i = j }

NewNameUnprefixed(track, setup) == setup

\* newName = f"{track}-{setup}"
NewName(track, setup) == track \o "-" \o setup

\* shutil.move(src, dst) of a file: dst is replaced when it is a file
Move(r, src, dst) ==
    IF r.err THEN r
    ELSE IF ~IsFile(r.fs, src) \/ IsDir(r.fs, dst) \/ ~IsDir(r.fs, Parent(dst))
         THEN Raise(r)
    ELSE [r EXCEPT !.fs = [q \in ((DOMAIN r.fs) \ {src}) \cup {dst} |->
                              IF q = dst THEN r.fs[src] ELSE r.fs[q]]]

RECURSIVE RenameSetups(_, _, _, _, _)
\* "for setup in setups" of the rename phase, from the k-th listed name on;
\* r.paths collects setupPaths
RenameSetups(r, trackPath, track, setups, k) ==
    IF k > Len(setups) \/ r.err THEN r
    ELSE LET targetPath == Join(trackPath, NewName(track, setups[k]))
             r1 == Move(r, Join(trackPath, setups[k]), targetPath)
         IN RenameSetups(IF r1.err THEN r1
                         ELSE [r1 EXCEPT !.paths = Append(@, targetPath)],
                         trackPath, track, setups, k + 1)

\* one copy of the copy phase; r.clobbered records a copy onto a file that
\* was there
CopySetup(r, setupPath, targetPath) ==
    IF r.err \/ setupPath = targetPath THEN r
    ELSE LET r1 == CopyFile(r, setupPath, targetPath)
         IN IF ~r1.err /\ IsFile(r.fs, targetPath)
            THEN [r1 EXCEPT !.clobbered = TRUE] ELSE r1

RECURSIVE CopyToTracks(_, _, _, _)
\* "To every track"
CopyToTracks(r, setupPath, carPath, i) ==
    IF i > NumTracks \/ r.err THEN r
    ELSE CopyToTracks(CopySetup(r, setupPath,
                                Join(Join(carPath, Tracks[i]), Base(setupPath))),
                      setupPath, carPath, i + 1)

RECURSIVE CopyEvery(_, _, _, _)
\* "Copy every setup"
CopyEvery(r, setupPaths, carPath, k) ==
    IF k > Len(setupPaths) \/ r.err THEN r
    ELSE CopyEvery(CopyToTracks(r, setupPaths[k], carPath, 1),
                   setupPaths, carPath, k + 1)

InitRun(f) ==
    [fs |-> f, err |-> FALSE, out |-> << >>, paths |-> << >>,
     clobbered |-> FALSE]

\* "for car in cars": the next car, and create_track_dirs for it
InitCar ==
    /\ ini.pc = "cars"
    /\ \E car \in ini.cars :
          LET r == create_track_dirs(InitRun(fs), Join(Root, car))
          IN /\ fs' = r.fs
             /\ ini' = [ini EXCEPT !.pc = IF r.err THEN "failed" ELSE "rename",
                                   !.cars = @ \ {car},
                                   !.car = Join(Root, car),
                                   !.i = 1,
                                   !.setupPaths = << >>]
    /\ UNCHANGED <<backend, queue, paused, pc, last, pre, userTrack, active,
                   main, ens>>

\* the rename phase for the i-th track
InitRename ==
    /\ ini.pc = "rename"
    /\ LET track == Tracks[ini.i]
           trackPath == Join(ini.car, track)
       IN \E setups \in Orders(ListFiles(fs, trackPath)) :
             LET r == RenameSetups(InitRun(fs), trackPath, track, setups, 1)
             IN /\ fs' = r.fs
                /\ ini' = [ini EXCEPT
                             !.pc = IF r.err THEN "failed"
                                    ELSE IF ini.i = NumTracks THEN "copy"
                                    ELSE "rename",
                             !.i = @ + 1,
                             !.setupPaths = @ \o r.paths]
    /\ UNCHANGED <<backend, queue, paused, pc, last, pre, userTrack, active,
                   main, ens>>

\* the copy phase of the car
InitCopy ==
    /\ ini.pc = "copy"
    /\ LET r == CopyEvery(InitRun(fs), ini.setupPaths, ini.car, 1)
       IN /\ fs' = r.fs
          /\ ini' = [ini EXCEPT !.pc = IF r.err THEN "failed" ELSE "cars",
                                !.clobbered = @ \/ r.clobbered]
    /\ UNCHANGED <<backend, queue, paused, pc, last, pre, userTrack, active,
                   main, ens>>

\* no car is left: init returns
InitReturn ==
    /\ ini.pc = "cars"
    /\ ini.cars = {}
    /\ ini' = [ini EXCEPT !.pc = "done"]
    /\ UNCHANGED <<fs, backend, queue, paused, pc, last, pre, userTrack,
                   active, main, ens>>

\* the names a track may hold when init starts: a plain name, and names
\* that already carry the name of a track
InitNames == {"f"} \cup { t \o "-f" : t \in TrackSet }

InitBytes(n) == IF n = "f" THEN "b1" ELSE "b2"

InitContents ==
    { [n \in S |-> InitBytes(n)] : S \in { T \in SUBSET InitNames : Cardinality(T) <= 2 } }

InitTrackStates(t) ==
    IF \E i \in 1..InitVaried : i <= NumTracks /\ Tracks[i] = t
    THEN { [present |-> TRUE, files |-> c] : c \in InitContents }
    ELSE { [present |-> FALSE, files |-> << >>] }

InitFilesystems ==
    { Roots @@ (Stray :> "b1") @@ CarFs(Car1, assign)
        @@ CarFs(Car2, [t \in {Tracks[1]} |->
                          [present |-> TRUE, files |-> [n \in {"f"} |-> "b1"]]])
        : assign \in { a \in [TrackSet -> UNION { InitTrackStates(t) : t \in TrackSet }] :
                         \A t \in TrackSet : a[t] \in InitTrackStates(t) } }

InitInit ==
    /\ fs \in InitFilesystems
    /\ backend = << >>
    /\ queue = << >>
    /\ paused = FALSE
    /\ pc = "idle"
    /\ last = [ev |-> NoEvent, outcome |-> "none"]
    /\ pre = fs
    /\ userTrack = Tracks[1]
    /\ active = 0
    /\ main = MainWaiting
    /\ ens = EnsIdle
    /\ ini = [IniOff EXCEPT !.pc = "cars", !.cars = ListDirs(fs, Root)]

NextInit ==
    \/ InitCar
    \/ InitRename
    \/ InitCopy
    \/ InitReturn

SpecInit == InitInit /\ [][NextInit]_vars

(***************************************************************************)
(* C11  Bulk initializer: for every file f with bytes b of a track T       *)
(* before init, init completes and afterwards T holds T-f with bytes b and *)
(* no longer f, and every other track holds T-f with bytes b.              *)
(***************************************************************************)
C11_InitPreserves ==
    /\ ini.pc # "failed"
    /\ ini.pc = "done" =>
          \A car \in ListDirs(pre, Root) : \A t \in TrackSet :
             \A n \in ListFiles(pre, Join(Join(Root, car), t)) :
                LET carPath == Join(Root, car)
                    b == pre[Join(Join(carPath, t), n)]
                    renamed == t \o "-" \o n
                IN /\ ~IsFile(fs, Join(Join(carPath, t), n))
                   /\ \A t2 \in TrackSet :
                         /\ IsFile(fs, Join(Join(carPath, t2), renamed))
                         /\ fs[Join(Join(carPath, t2), renamed)] = b

(***************************************************************************)
(* create_track_dirs on its own: SpecEnsure calls it in succession on the  *)
(* directory of car1, whose track names may be missing, directories, or    *)
(* taken by a file.                                                        *)
(***************************************************************************)
\* how many calls in succession
EnsureCalls == 2

Ensure ==
    /\ ens.calls < EnsureCalls
    /\ LET r == create_track_dirs([fs |-> fs, err |-> FALSE, out |-> << >>], Car1)
       IN /\ fs' = r.fs
          /\ ens' = [calls |-> ens.calls + 1, err |-> r.err,
                     start |-> IF ens.calls = 0 THEN fs ELSE ens.start]
    /\ pre' = fs
    /\ UNCHANGED <<backend, queue, paused, pc, last, userTrack, active, main,
                   ini>>

EnsureTrackStates == { "missing", "dir", "dirfile", "file" }

EnsureFilesystems ==
    { LET tracks == { Join(Car1, t) : t \in { u \in TrackSet : a[u] # "missing" } }
          files == { Join(Join(Car1, t), "f") : t \in { u \in TrackSet : a[u] = "dirfile" } }
      IN Roots @@ (Car1 :> "dir") @@ (Unknown :> "dir") @@ (Join(Unknown, "f") :> "b2")
         @@ [p \in tracks \cup files |->
               IF p \in files THEN "b2"
               ELSE IF a[Base(p)] = "file" THEN "b1" ELSE "dir"]
        : a \in [TrackSet -> EnsureTrackStates] }

InitEnsure ==
    /\ fs \in EnsureFilesystems
    /\ backend = << >>
    /\ queue = << >>
    /\ paused = FALSE
    /\ pc = "idle"
    /\ last = [ev |-> NoEvent, outcome |-> "none"]
    /\ pre = fs
    /\ userTrack = Tracks[1]
    /\ active = 0
    /\ main = MainWaiting
    /\ ens = EnsIdle
    /\ ini = IniOff

NextEnsure == Ensure

SpecEnsure == InitEnsure /\ [][NextEnsure]_vars

(***************************************************************************)
(* C12  Idempotence of create_track_dirs: a second call in succession      *)
(* leaves the filesystem as the first call left it.                        *)
(***************************************************************************)
C12_EnsureIdempotent == ens.calls >= 2 => fs = pre

C12_Witness ==
    /\ ens.calls = 2
    /\ ~ens.err
    /\ ens.start # pre
    /\ fs = pre

(***************************************************************************)
(* C17  Postcondition of create_track_dirs: after a call that returns,     *)
(* every known track name is a directory of the car directory, and every   *)
(* entry that existed before the call is still there with its contents,    *)
(* whether or not the call returned.                                       *)
(***************************************************************************)
C17_EnsurePostcondition ==
    ens.calls >= 1 =>
       /\ \A p \in DOMAIN pre : p \in DOMAIN fs /\ fs[p] = pre[p]
       /\ ~ens.err => \A t \in TrackSet : IsDir(fs, Join(Car1, t))

C17_Witness ==
    /\ ens.calls = 1
    /\ ~ens.err
    /\ \E t \in TrackSet : ~IsDir(pre, Join(Car1, t))
    /\ \E t \in TrackSet : IsFile(pre, Join(Join(Car1, t), "f"))
    /\ \A t \in TrackSet : IsDir(fs, Join(Car1, t))

(***************************************************************************)
(* C13  Serialized handling: at most one execution of the handler's        *)
(* pause/run/resume sequence is in progress at any time, and an event can  *)
(* be dispatched only when none is in progress.                            *)
(***************************************************************************)
C13_Serialized ==
    /\ active <= 1
    /\ CanDispatch => active = 0

C13_Witness ==
    /\ active = 1
    /\ pc = "sleep"
    /\ last.outcome = "done"
    /\ queue # << >>

(***************************************************************************)
(* C15  Resume on every exit path: the observer is paused only while a     *)
(* handler execution is in progress; once control has left the with-block  *)
(* of on_modified, by completion, early return or exception, the paused    *)
(* flag is false.                                                          *)
(***************************************************************************)
C15_ResumeOnEveryExit == paused => pc \in {"sleep", "clear", "unpause"}

(***************************************************************************)
(* C16  Drain: an event put on the event queue while the observer was      *)
(* paused is never dispatched to the handler.                              *)
(***************************************************************************)
C16_Drain == last.outcome # "none" => ~last.ev.gated

(***************************************************************************)
(* The main flow of watch mode: the wait loop, the interrupt, stop and     *)
(* join.  SpecMain adds them to the watch, with the fairness of threads    *)
(* that keep running: the main thread and the observer thread take their   *)
(* next step, while the user, the backend and the signal need not act.     *)
(***************************************************************************)
InResume == pc \in {"sleep", "clear", "unpause"}

\* KeyboardInterrupt is raised in time.sleep(1) and caught
Interrupt ==
    /\ main.pc = "waiting"
    /\ main' = [main EXCEPT !.pc = "interrupted", !.inflight = InResume]
    /\ UNCHANGED <<fs, backend, queue, paused, pc, last, pre, userTrack,
                   active, ens, ini>>

\* observer.stop()
MainStop ==
    /\ main.pc = "interrupted"
    /\ main' = [main EXCEPT !.pc = "joining", !.stopped = TRUE]
    /\ UNCHANGED <<fs, backend, queue, paused, pc, last, pre, userTrack,
                   active, ens, ini>>

\* the observer thread leaves its loop once stopped and between two events
ObserverExit ==
    /\ pc = "idle"
    /\ main.stopped
    /\ pc' = "stopped"
    /\ UNCHANGED <<fs, backend, queue, paused, last, pre, userTrack, active,
                   others>>

MainJoinNoWait ==
    /\ main.pc = "joining"
    /\ main' = [main EXCEPT !.pc = "exited", !.code = 0]
    /\ UNCHANGED <<fs, backend, queue, paused, pc, last, pre, userTrack,
                   active, ens, ini>>

\* observer.join() returns when the observer thread has ended; return 0
MainJoin ==
    /\ main.pc = "joining"
    /\ pc \in {"stopped", "dead"}
    /\ main' = [main EXCEPT !.pc = "exited", !.code = 0]
    /\ UNCHANGED <<fs, backend, queue, paused, pc, last, pre, userTrack,
                   active, ens, ini>>

\* the emitter threads and the user, followed while the watch is on:
\* observer.stop() stops the emitters.  The user saves once the events of the
\* save before have been taken from the queue, and deletes at any time.
WatchedEmit == ~main.stopped /\ Emit

Delivered == backend = << >> /\ queue = << >>

WatchedModify == ~main.stopped /\ Delivered /\ \E b \in Bytes : ExtModify(b)

WatchedDelete == ~main.stopped /\ ExtDelete

NextMain ==
    \/ Interrupt
    \/ MainStop
    \/ ObserverExit
    \/ MainJoin
    \/ DispatchOther
    \/ DispatchModified
    \/ ResumeSleep
    \/ ResumeClear
    \/ ResumeUnpause
    \/ WatchedEmit
    \/ WatchedModify
    \/ WatchedDelete

\* the watch as in Init, with the user at work in the first track
InitMain ==
    /\ Init
    /\ userTrack = Tracks[1]
    /\ IsFile(fs, UserFile)

SpecMain ==
    /\ InitMain
    /\ [][NextMain]_vars
    /\ WF_vars(MainStop)
    /\ WF_vars(MainJoin)
    /\ WF_vars(ObserverExit)
    /\ WF_vars(ResumeSleep)
    /\ WF_vars(ResumeClear)
    /\ WF_vars(ResumeUnpause)

(***************************************************************************)
(* C14  Cancellation: once the interrupt is received the main flow stops   *)
(* the observer, returns only after the observer thread has ended, with    *)
(* exit code 0; no pause/run/resume sequence is still in progress then,    *)
(* so one in flight when the signal arrived has run to its end; and the    *)
(* process eventually exits.                                               *)
(***************************************************************************)
C14_ExitAfterWorker ==
    main.pc = "exited" =>
       /\ main.stopped
       /\ main.code = 0
       /\ pc \in {"stopped", "dead"}
       /\ active = 0

C14_Cancellation ==
    /\ [] C14_ExitAfterWorker
    /\ (main.pc = "interrupted") ~> (main.pc = "exited")

C14_Witness ==
    /\ main.pc = "exited"
    /\ main.inflight
    /\ pc = "stopped"
    /\ last.outcome = "done"

(***************************************************************************)
(* C18  Frame of a pass: processing an event for known track A of car C,   *)
(* directory-level or single-file, leaves every entry inside A's own       *)
(* directory and every entry outside C's directory as it was: none is      *)
(* created, overwritten or removed.                                        *)
(***************************************************************************)
Under(p, d) == Len(p) > Len(d) /\ SubSeq(p, 1, Len(d)) = d

C18_Frame ==
    (DirPass \/ FilePass) =>
       \A p \in (DOMAIN pre) \cup (DOMAIN fs) :
          (Under(p, EvTrackDir) \/ ~(p = EvCarDir \/ Under(p, EvCarDir))) =>
             /\ p \in DOMAIN pre
             /\ p \in DOMAIN fs
             /\ fs[p] = pre[p]

C18_Witness ==
    /\ FilePass
    /\ last.outcome = "done"
    /\ fs # pre
    /\ ListFiles(pre, EvTrackDir) # {}
    /\ IsFile(pre, Join(Join(Car2, Tracks[1]), "f"))

(***************************************************************************)
(* C19  The copy phase of init never clobbers: when the rename phase of a  *)
(* car is over, every file of track T is named T-<something>, the names    *)
(* collected from two different tracks differ, and no copy of the copy     *)
(* phase writes onto a file that was already in the target directory.      *)
(***************************************************************************)
HasTrackPrefix(t, n) == \E m \in InitNames : n = t \o "-" \o m

C19_CopyNeverClobbers ==
    /\ ~ini.clobbered
    /\ ini.pc = "copy" =>
          /\ \A t \in TrackSet : \A n \in ListFiles(fs, Join(ini.car, t)) :
                HasTrackPrefix(t, n)
          /\ \A i, j \in DOMAIN ini.setupPaths :
                Parent(ini.setupPaths[i]) # Parent(ini.setupPaths[j]) =>
                   Base(ini.setupPaths[i]) # Base(ini.setupPaths[j])

C19_Witness ==
    /\ ini.pc = "done"
    /\ ~ini.clobbered
    /\ IsFile(pre, Join(Join(Car1, Tracks[1]), "f"))
    /\ IsFile(pre, Join(Join(Car1, Tracks[2]), "f"))
    /\ \A t \in TrackSet :
          /\ IsFile(fs, Join(Join(Car1, t), Tracks[1] \o "-f"))
          /\ IsFile(fs, Join(Join(Car1, t), Tracks[2] \o "-f"))

====
